---- MODULE Spec2Model ----
(***************************************************************************)
(* A model of dgsh_util.c: is_dgsh_program(path) opens and maps a file,    *)
(* then decides from its bytes whether the program is dgsh-compatible,     *)
(* either as a script (first two bytes "#!") or as an ELF binary carrying  *)
(* a ".note.ident" note named "DSpinellis/dgsh".                           *)
(*                                                                         *)
(* A file's contents are a sequence of bytes (0..255); byte k of the C     *)
(* buffer (0-based) is B[k+1].  Every helper returns a record              *)
(* [ub, r]: r is the C int it returns, ub says that the helper read a      *)
(* byte outside [0, Len(B)) on the way, which is undefined behaviour in C. *)
(***************************************************************************)
EXTENDS Integers, Sequences, FiniteSets, TLC

VARIABLES file, pc, fd, file_size, data, mode, r, ret, oob, maps, unmaps, badUnmap

vars == <<file, pc, fd, file_size, data, mode, r, ret, oob, maps, unmaps, badUnmap>>

----------------------------------------------------------------------------
(* Byte strings of the source, without their terminating NUL.              *)

\* '\n'
NL == 10

\* "#!"
SHEBANG == <<35, 33>>

\* ELFMAG "\177ELF", compared over SELFMAG bytes
ELFMAG == <<127, 69, 76, 70>>

\* index of the class byte in e_ident
EI_CLASS == 4

\* "DSpinellis/dgsh"
DGSH_NAME == <<68, 83, 112, 105, 110, 101, 108, 108, 105, 115, 47, 100, 103, 115, 104>>

\* sizeof(DGSH_NAME): the characters of the literal and its terminating NUL
sizeof_DGSH_NAME_strlen == Len(DGSH_NAME)

sizeof_DGSH_NAME == Len(DGSH_NAME) + 1

MAX_LINE_LEN == 1024

\* ".note.ident"
NOTE_IDENT == <<46, 110, 111, 116, 101, 46, 105, 100, 101, 110, 116>>

\* "dgsh-wrap"
TOK_DGSH_WRAP == <<100, 103, 115, 104, 45, 119, 114, 97, 112>>

\* "--dgsh"
TOK_DASH_DGSH == <<45, 45, 100, 103, 115, 104>>

\* "env dgsh"
TOK_ENV_DGSH == <<101, 110, 118, 32, 100, 103, 115, 104>>

\* magic[] = "#!dgsh"
magic == <<35, 33, 100, 103, 115, 104>>

\* sizeof(magic): the six characters and the terminating NUL
sizeof_magic == Len(magic) + 1

----------------------------------------------------------------------------
(* Reading the buffer.                                                     *)

Min(S) == CHOOSE m \in S : \A k \in S : m <= k

\* the n bytes at p .. p+n-1 lie inside the buffer
InBuf(B, p, n) == p >= 0 /\ p + n <= Len(B)

\* memcmp(B + p, s, n) == 0, for n bytes inside the buffer; s is NUL-padded
\* to n bytes, as a string literal compared with its terminator is
memcmp_eq(B, p, s, n) ==
  \A k \in 1..n : B[p + k] = (IF k <= Len(s) THEN s[k] ELSE 0)

\* an unsigned little-endian field of n bytes at offset off
RECURSIVE U(_, _, _)
U(B, off, n) == IF n = 0 THEN 0 ELSE B[off + 1] + 256 * U(B, off + 1, n - 1)

Res(v) == [ub |-> FALSE, r |-> v]

UB == [ub |-> TRUE, r |-> 0]

----------------------------------------------------------------------------
(* The script scanner.                                                     *)

\* linenstr without the test for the end of the first line
linenstr_any_line(B, needle, hlen) ==
  LET nlen == Len(needle)
      stop == {p \in 0..hlen :
                 \/ ~(nlen < hlen - p)
                 \/ ~InBuf(B, p, nlen)
                 \/ memcmp_eq(B, p, needle, nlen)}
      p0 == Min(stop)
  IN  IF ~(nlen < hlen - p0) THEN Res(0)
      ELSE IF ~InBuf(B, p0, nlen) THEN UB
      ELSE Res(1)

(* linenstr(haystack, needle, hlen) != NULL.  Iteration p of the loop      *)
(* (p = 0, 1, ...) has haystack = B + p and tests nlen < hlen - p (the     *)
(* value of hlen before its decrement), then reads B[p], then compares     *)
(* nlen bytes at p.  The loop is long (up to 1024 iterations), so it is    *)
(* written as its first iteration that leaves the loop: p0.                *)
linenstr(B, needle, hlen) ==
  LET nlen == Len(needle)
      stop == {p \in 0..hlen :
                 \/ ~(nlen < hlen - p)
                 \/ ~InBuf(B, p, 1)
                 \/ B[p + 1] = NL
                 \/ ~InBuf(B, p, nlen)
                 \/ memcmp_eq(B, p, needle, nlen)}
      p0 == Min(stop)
  IN  IF ~(nlen < hlen - p0) THEN Res(0)
      ELSE IF ~InBuf(B, p0, 1) THEN UB
      ELSE IF B[p0 + 1] = NL THEN Res(0)
      ELSE IF ~InBuf(B, p0, nlen) THEN UB
      ELSE Res(1)

(* is_magic_script_dgsh_program(data, len): memchr for the first newline   *)
(* in len bytes, then at least sizeof(magic) bytes must remain after it.   *)
is_magic_script_dgsh_program(B, len) ==
  IF ~InBuf(B, 0, len) /\ \A i \in 1..Len(B) : B[i] # NL THEN UB
  ELSE
    LET nls == {i \in 0..(len - 1) : InBuf(B, i, 1) /\ B[i + 1] = NL}
    IN  IF nls = {} THEN Res(0)
        ELSE
          LET line2 == Min(nls) + 1
              rest == len - line2
          IN  IF rest < sizeof_magic THEN Res(0)
              ELSE IF ~InBuf(B, line2, sizeof_magic - 1) THEN UB
              ELSE Res(IF memcmp_eq(B, line2, magic, sizeof_magic - 1) THEN 1 ELSE 0)

\* a || b on helper results: b is evaluated only when a is false
OrElse(a, b) == IF a.ub \/ a.r = 1 THEN a ELSE b

\* is_script_dgsh_program without the MAX_LINE_LEN cap on len
is_script_dgsh_program_uncapped(B, len0) ==
  OrElse(linenstr(B, TOK_DGSH_WRAP, len0),
  OrElse(linenstr(B, TOK_DASH_DGSH, len0),
  OrElse(linenstr(B, TOK_ENV_DGSH, len0),
         is_magic_script_dgsh_program(B, len0))))

is_script_dgsh_program(B, len0) ==
  LET len == IF len0 < MAX_LINE_LEN THEN len0 ELSE MAX_LINE_LEN
  IN  OrElse(linenstr(B, TOK_DGSH_WRAP, len),
      OrElse(linenstr(B, TOK_DASH_DGSH, len),
      OrElse(linenstr(B, TOK_ENV_DGSH, len),
             is_magic_script_dgsh_program(B, len))))

----------------------------------------------------------------------------
(* The ELF walker.  The field offsets are those of <elf.h>: Elf32_Ehdr,    *)
(* Elf32_Shdr, Elf64_Ehdr, Elf64_Shdr; Elf32_Nhdr and Elf64_Nhdr are both  *)
(* three 4-byte words.  Fields are read in the host's (little-endian)      *)
(* byte order.                                                             *)

Elf32 ==
  [ehsize |-> 52, wordsz |-> 4, e_shoff |-> 32, e_shnum |-> 48, e_shstrndx |-> 50,
   shentsize |-> 40, sh_name |-> 0, sh_offset |-> 16, sh_size |-> 20, nhdr |-> 12]

Elf64 ==
  [ehsize |-> 64, wordsz |-> 8, e_shoff |-> 40, e_shnum |-> 60, e_shstrndx |-> 62,
   shentsize |-> 64, sh_name |-> 0, sh_offset |-> 24, sh_size |-> 32, nhdr |-> 12]

\* strcmp(B + p, s) == 0, reading bytes in order up to the first difference
\* or the NUL that ends both strings
RECURSIVE strcmp_from(_, _, _, _)
strcmp_from(B, p, s, k) ==
  IF ~InBuf(B, p + k - 1, 1) THEN UB
  ELSE
    LET c == B[p + k]
        e == IF k <= Len(s) THEN s[k] ELSE 0
    IN  IF c # e THEN Res(0)
        ELSE IF e = 0 THEN Res(1)
        ELSE strcmp_from(B, p, s, k + 1)

\* a comparison of the first strlen(s) bytes only, as strncmp would make
strcmp_eq_prefix(B, p, s) ==
  IF ~InBuf(B, p, Len(s)) THEN UB
  ELSE Res(IF memcmp_eq(B, p, s, Len(s)) THEN 1 ELSE 0)

strcmp_eq(B, p, s) == strcmp_from(B, p, s, 1)

(* has_dgsh_section_32 and has_dgsh_section_64 are the same loop over two  *)
(* struct layouts; L is the layout, i the loop variable.                   *)
RECURSIVE has_dgsh_section(_, _, _, _, _, _)
has_dgsh_section(L, B, shdr, strTab, shNum, i) ==
  IF ~(i < shNum) THEN Res(0)
  ELSE
    LET ent == shdr + i * L.shentsize
    IN  IF ~InBuf(B, ent + L.sh_name, 4) THEN UB
        ELSE
          LET cmp == strcmp_eq(B, strTab + U(B, ent + L.sh_name, 4), NOTE_IDENT)
          IN  IF cmp.ub THEN UB
              ELSE IF cmp.r = 0 THEN has_dgsh_section(L, B, shdr, strTab, shNum, i + 1)
              ELSE IF ~InBuf(B, ent + L.sh_offset, L.wordsz) THEN UB
              ELSE
                LET note == U(B, ent + L.sh_offset, L.wordsz)
                IN  IF ~InBuf(B, note, 4) THEN UB
                    ELSE IF U(B, note, 4) # sizeof_DGSH_NAME
                      THEN has_dgsh_section(L, B, shdr, strTab, shNum, i + 1)
                    ELSE IF ~InBuf(B, note + L.nhdr, sizeof_DGSH_NAME) THEN UB
                    ELSE IF memcmp_eq(B, note + L.nhdr, DGSH_NAME, sizeof_DGSH_NAME)
                      THEN Res(1)
                    ELSE has_dgsh_section(L, B, shdr, strTab, shNum, i + 1)

has_dgsh_section_32(B, shdr, strTab, shNum) ==
  has_dgsh_section(Elf32, B, shdr, strTab, shNum, 0)

has_dgsh_section_64(B, shdr, strTab, shNum) ==
  has_dgsh_section(Elf64, B, shdr, strTab, shNum, 0)

(* is_elf_dgsh_program(data): the magic, the class byte, then per class    *)
(* shdr = data + e_shoff, strtab = data + shdr[e_shstrndx].sh_offset and   *)
(* the section loop over e_shnum entries.  No field is checked against the *)
(* length of the buffer: the function does not receive it.                 *)
is_elf_dgsh_program(B) ==
  IF ~InBuf(B, 0, Len(ELFMAG)) THEN UB
  ELSE IF ~memcmp_eq(B, 0, ELFMAG, Len(ELFMAG)) THEN Res(0)
  ELSE IF ~InBuf(B, EI_CLASS, 1) THEN UB
  ELSE
    LET arch == B[EI_CLASS + 1]
        L == IF arch = 1 THEN Elf32 ELSE Elf64
    IN  IF arch # 1 /\ arch # 2 THEN Res(0)
        ELSE IF ~InBuf(B, L.e_shoff, L.wordsz) THEN UB
        ELSE IF ~InBuf(B, L.e_shstrndx, 2) THEN UB
        ELSE
          LET shdr == U(B, L.e_shoff, L.wordsz)
              ent == shdr + U(B, L.e_shstrndx, 2) * L.shentsize
          IN  IF ~InBuf(B, ent + L.sh_offset, L.wordsz) THEN UB
              ELSE IF ~InBuf(B, L.e_shnum, 2) THEN UB
              ELSE IF arch = 1
                THEN has_dgsh_section_32(B, shdr, U(B, ent + L.sh_offset, L.wordsz),
                                         U(B, L.e_shnum, 2))
                ELSE has_dgsh_section_64(B, shdr, U(B, ent + L.sh_offset, L.wordsz),
                                         U(B, L.e_shnum, 2))

----------------------------------------------------------------------------
(* The files the call is run on.  A file is [exists, bytes]; the bounds    *)
(* below size the families of scripts and ELF images that are enumerated.  *)

\* filler runs between the pieces of a script are 0..MaxFill bytes long
MaxFill == 2

\* pieces of a long script start at MAX_LINE_LEN - MaxNear .. MAX_LINE_LEN + 1
MaxNear == 10

\* truncated images keep their first 0..MaxTrunc bytes
MaxTrunc == 6

\* an ELF image has 0..MaxExtra ordinary sections before its note section
MaxExtra == 1

\* n_namesz ranges over 16 - NameSzSpread .. 16 + NameSzSpread
NameSzSpread == 1

\* n filler bytes, 'a'
Fill(n) == [i \in 1..n |-> 97]

Take(B, n) == IF n >= Len(B) THEN B ELSE SubSeq(B, 1, n)

Tokens == {TOK_DGSH_WRAP, TOK_DASH_DGSH, TOK_ENV_DGSH}

Pieces == Tokens \cup {<<>>, <<NL>>, magic}

\* "#!/bin/sh\necho dgsh-wrap\n"
SCRIPT_WRAP_LINE2 ==
  <<35, 33, 47, 98, 105, 110, 47, 115, 104, 10, 101, 99, 104, 111, 32,
    100, 103, 115, 104, 45, 119, 114, 97, 112, 10>>

\* "#!/bin/sh\n#!dgsh extra\n"
SCRIPT_MAGIC_LINE2 ==
  <<35, 33, 47, 98, 105, 110, 47, 115, 104, 10, 35, 33, 100, 103, 115, 104,
    32, 101, 120, 116, 114, 97, 10>>

\* "#!/bin/sh\nnothing special\n"
SCRIPT_PLAIN ==
  <<35, 33, 47, 98, 105, 110, 47, 115, 104, 10, 110, 111, 116, 104, 105, 110,
    103, 32, 115, 112, 101, 99, 105, 97, 108, 10>>

\* "#!/usr/bin/env dgsh\n"
SCRIPT_ENV ==
  <<35, 33, 47, 117, 115, 114, 47, 98, 105, 110, 47, 101, 110, 118, 32,
    100, 103, 115, 104, 10>>

ShortScripts ==
  {SHEBANG \o Fill(i) \o X \o Fill(j) \o Y \o Fill(k) :
     i \in 0..MaxFill, j \in 0..MaxFill, k \in 0..MaxFill, X \in Pieces, Y \in Pieces}

LongScripts ==
  {SHEBANG \o Fill(s - 2) \o X \o Y \o Fill(k) :
     s \in (MAX_LINE_LEN - MaxNear)..(MAX_LINE_LEN + 1), k \in 0..MaxFill,
     X \in {<<>>, <<NL>>}, Y \in Pieces}

\* v as n little-endian bytes
RECURSIVE LE(_, _)
LE(v, n) == IF n = 0 THEN <<>> ELSE <<v % 256>> \o LE(v \div 256, n - 1)

\* n bytes, zero except for the fields [off, b] placed in them
Blob(n, fields) ==
  [i \in 1..n |->
     IF \E f \in fields : f.off < i /\ i <= f.off + Len(f.b)
       THEN LET f == CHOOSE g \in fields : g.off < i /\ i <= g.off + Len(g.b)
            IN  f.b[i - f.off]
       ELSE 0]

Ehdr(L, cls, shoff, shnum, shstrndx) ==
  Blob(L.ehsize,
       {[off |-> 0, b |-> ELFMAG \o <<cls, 1, 1>>],
        [off |-> L.e_shoff, b |-> LE(shoff, L.wordsz)],
        [off |-> L.e_shnum, b |-> LE(shnum, 2)],
        [off |-> L.e_shstrndx, b |-> LE(shstrndx, 2)]})

Shdr(L, name, off, size) ==
  Blob(L.shentsize,
       {[off |-> L.sh_name, b |-> LE(name, 4)],
        [off |-> L.sh_offset, b |-> LE(off, L.wordsz)],
        [off |-> L.sh_size, b |-> LE(size, L.wordsz)]})

\* section names other than ".note.ident": ".text", ".shstrtab", and
\* ".note.idenu", ".note.iden", ".note.identx"
SEC_TEXT == <<46, 116, 101, 120, 116>>

SEC_SHSTRTAB == <<46, 115, 104, 115, 116, 114, 116, 97, 98>>

SecNames ==
  {NOTE_IDENT, SEC_TEXT,
   <<46, 110, 111, 116, 101, 46, 105, 100, 101, 110, 117>>,
   <<46, 110, 111, 116, 101, 46, 105, 100, 101, 110>>,
   <<46, 110, 111, 116, 101, 46, 105, 100, 101, 110, 116, 120>>}

\* note names: the identifier, "DSpinellis/dgsi", and the identifier
\* followed by 'x' instead of its NUL; each padded to 20 bytes
NoteNames ==
  {DGSH_NAME \o <<0, 0, 0, 0, 0>>,
   <<68, 83, 112, 105, 110, 101, 108, 108, 105, 115, 47, 100, 103, 115, 105, 0, 0, 0, 0, 0>>,
   DGSH_NAME \o <<120, 0, 0, 0, 0>>}

Corruptions ==
  {"none", "shoff_past", "shnum_huge", "shnum_low", "shstrndx_past",
   "strtab_past", "note_past", "cut_tail"}

(* An ELF image: header, section name table, one note, then the section    *)
(* header table: the null section, `extra` sections named ".text", the     *)
(* note section named secname, and ".shstrtab" last.  how damages one      *)
(* field of an otherwise consistent image.                                 *)
MkElf(L, cls, extra, secname, namesz, notename, how) ==
  LET strtab == <<0>> \o SEC_SHSTRTAB \o <<0>> \o SEC_TEXT \o <<0>> \o secname \o <<0>>
      note == LE(namesz, 4) \o LE(0, 4) \o LE(1, 4) \o notename
      strOff == L.ehsize
      noteOff == strOff + Len(strtab)
      shoff == noteOff + Len(note)
      shnum == extra + 3
      total == shoff + shnum * L.shentsize
      far == total + 64
      texts == IF extra = 0 THEN <<>>
               ELSE IF extra = 1 THEN Shdr(L, 11, strOff, 0)
               ELSE Shdr(L, 11, strOff, 0) \o Shdr(L, 11, strOff, 0)
      image ==
        Ehdr(L, cls,
             IF how = "shoff_past" THEN far ELSE shoff,
             IF how = "shnum_huge" THEN 65535
               ELSE IF how = "shnum_low" THEN shnum - 1 ELSE shnum,
             IF how = "shstrndx_past" THEN shnum ELSE shnum - 1)
        \o strtab \o note
        \o Shdr(L, 0, 0, 0)
        \o texts
        \o Shdr(L, 17, IF how = "note_past" THEN far ELSE noteOff, Len(note))
        \o Shdr(L, 1, IF how = "strtab_past" THEN far ELSE strOff, Len(strtab))
  IN  IF how = "cut_tail" THEN Take(image, total - 1) ELSE image

ElfImages ==
  {MkElf(IF cls = 2 THEN Elf64 ELSE Elf32, cls, extra, secname, namesz, notename, how) :
     cls \in {1, 2}, extra \in 0..MaxExtra, secname \in SecNames,
     namesz \in (16 - NameSzSpread)..(16 + NameSzSpread), notename \in NoteNames,
     how \in Corruptions}

\* images of a class that is neither 32 nor 64 bit
ForeignImages ==
  {MkElf(Elf32, cls, 0, NOTE_IDENT, 16, DGSH_NAME \o <<0, 0, 0, 0, 0>>, "none") :
     cls \in {0, 3}}

Truncated ==
  {Take(B, n) :
     n \in 0..MaxTrunc,
     B \in {SCRIPT_ENV, Fill(MaxTrunc),
            MkElf(Elf32, 1, 0, NOTE_IDENT, 16, DGSH_NAME \o <<0, 0, 0, 0, 0>>, "none")}}

Contents ==
  ShortScripts \cup LongScripts \cup ElfImages \cup ForeignImages \cup Truncated
  \cup {SCRIPT_WRAP_LINE2, SCRIPT_MAGIC_LINE2, SCRIPT_PLAIN, SCRIPT_ENV}

Files ==
  {[exists |-> TRUE, bytes |-> B] : B \in Contents}
  \cup {[exists |-> FALSE, bytes |-> <<>>]}

----------------------------------------------------------------------------
(* is_dgsh_program(path), one action per statement.                        *)
(*   fd     "none", "open", "closed", or "failed" (open returned -1)       *)
(*   data   "unset", "mapped", or "MAP_FAILED": mmap returns a mapping or  *)
(*          MAP_FAILED (the pointer value -1), never NULL                  *)
(*   mode   the path the first two bytes selected: "script" or "elf"       *)
(*   oob    a byte was read that is not a byte of the mapped file          *)
(*   maps, unmaps   mappings established and released by the call          *)
(*   badUnmap       munmap was called on a mapping never established       *)
(*   pc = "done": the call has returned ret; pc = "fault": the process     *)
(*   was stopped by a signal inside the call                               *)

Init ==
  /\ file \in Files
  /\ pc = "open"
  /\ fd = "none"
  /\ file_size = 0
  /\ data = "unset"
  /\ mode = "none"
  /\ r = 0
  /\ ret = 0
  /\ oob = FALSE
  /\ maps = 0
  /\ unmaps = 0
  /\ badUnmap = FALSE

(* What a helper's result lets the call do next.  A read outside the       *)
(* buffer is undefined: the process may be stopped by a signal, or the     *)
(* helper may return either value.                                         *)
Outcomes(res) ==
  IF res.ub
    THEN {[fault |-> TRUE, r |-> 0], [fault |-> FALSE, r |-> 0], [fault |-> FALSE, r |-> 1]}
    ELSE {[fault |-> FALSE, r |-> res.r]}

\* fd = open(path, O_RDONLY); if (fd == -1) return 0;
Open ==
  /\ pc = "open"
  /\ IF file.exists
       THEN fd' = "open" /\ pc' = "lseek" /\ ret' = ret
       ELSE fd' = "failed" /\ pc' = "done" /\ ret' = 0
  /\ UNCHANGED <<file, file_size, data, mode, r, oob, maps, unmaps, badUnmap>>

\* file_size = lseek(fd, 0, SEEK_END);
Lseek ==
  /\ pc = "lseek"
  /\ file_size' = Len(file.bytes)
  /\ pc' = "mmap"
  /\ UNCHANGED <<file, fd, data, mode, r, ret, oob, maps, unmaps, badUnmap>>

\* data = mmap(NULL, file_size, PROT_READ, MAP_SHARED, fd, 0): a length of 0
\* always fails (EINVAL), any other length may fail (ENOMEM, ENODEV, ...)
Mmap ==
  /\ pc = "mmap"
  /\ \E ok \in (IF file_size = 0 THEN {FALSE} ELSE BOOLEAN) :
       /\ data' = (IF ok THEN "mapped" ELSE "MAP_FAILED")
       /\ maps' = (IF ok THEN maps + 1 ELSE maps)
  /\ pc' = "close"
  /\ UNCHANGED <<file, fd, file_size, mode, r, ret, oob, unmaps, badUnmap>>

\* close(fd); if (data == NULL) return 0;
Close ==
  /\ pc = "close"
  /\ fd' = "closed"
  /\ IF data = "NULL"
       THEN pc' = "done" /\ ret' = 0
       ELSE pc' = "dispatch" /\ ret' = ret
  /\ UNCHANGED <<file, file_size, data, mode, r, oob, maps, unmaps, badUnmap>>

\* if (memcmp(data, "#!", 2) == 0) ... else ...: two bytes are read from data
Dispatch ==
  /\ pc = "dispatch"
  /\ IF data = "mapped" /\ InBuf(file.bytes, 0, Len(SHEBANG))
       THEN /\ mode' = (IF memcmp_eq(file.bytes, 0, SHEBANG, Len(SHEBANG))
                          THEN "script" ELSE "elf")
            /\ pc' = mode'
            /\ UNCHANGED <<r, oob>>
       ELSE /\ oob' = TRUE
            /\ \E o \in Outcomes(UB) :
                 /\ pc' = (IF o.fault THEN "fault" ELSE "munmap")
                 /\ r' = o.r
            /\ mode' = mode
  /\ UNCHANGED <<file, fd, file_size, data, ret, maps, unmaps, badUnmap>>

\* the helper returned res, or read outside the buffer
Finish(res) ==
  /\ oob' = (oob \/ res.ub)
  /\ \E o \in Outcomes(res) :
       /\ pc' = (IF o.fault THEN "fault" ELSE "munmap")
       /\ r' = o.r
  /\ UNCHANGED <<file, fd, file_size, data, mode, ret, maps, unmaps, badUnmap>>

\* r = is_script_dgsh_program(data, file_size);
Script ==
  /\ pc = "script"
  /\ Finish(is_script_dgsh_program(file.bytes, file_size))

\* r = is_elf_dgsh_program(data);
Elf ==
  /\ pc = "elf"
  /\ Finish(is_elf_dgsh_program(file.bytes))

\* munmap(data, file_size);
Munmap ==
  /\ pc = "munmap"
  /\ IF data = "mapped"
       THEN unmaps' = unmaps + 1 /\ badUnmap' = badUnmap
       ELSE unmaps' = unmaps /\ badUnmap' = TRUE
  /\ pc' = "return"
  /\ UNCHANGED <<file, fd, file_size, data, mode, r, ret, oob, maps>>

\* return r;
Return ==
  /\ pc = "return"
  /\ ret' = r
  /\ pc' = "done"
  /\ UNCHANGED <<file, fd, file_size, data, mode, r, oob, maps, unmaps, badUnmap>>

Next == Open \/ Lseek \/ Mmap \/ Close \/ Dispatch \/ Script \/ Elf \/ Munmap \/ Return

Spec == Init /\ [][Next]_vars

----------------------------------------------------------------------------
(* What the properties speak of: the file's bytes, read by the format's    *)
(* definition and not by the walker's code.                                *)

Bytes == file.bytes

\* the call returned from a script scan, or from an ELF walk, of a mapped file
ScriptDone == pc = "done" /\ data = "mapped" /\ mode = "script"

ElfDone == pc = "done" /\ data = "mapped" /\ mode = "elf"

\* the first min(length, 1024) bytes
Window == IF Len(Bytes) < MAX_LINE_LEN THEN Len(Bytes) ELSE MAX_LINE_LEN

OccursAt(tok, p) == InBuf(Bytes, p, Len(tok)) /\ memcmp_eq(Bytes, p, tok, Len(tok))

\* a token lies entirely inside the window and before the first newline
TokenOnFirstLine ==
  \E tok \in Tokens : \E p \in 0..Window :
    /\ p + Len(tok) <= Window
    /\ OccursAt(tok, p)
    /\ \A q \in 1..p : Bytes[q] # NL

\* a token occurrence that begins inside the window and ends outside it
TokenStraddles ==
  \E tok \in Tokens : \E p \in (MAX_LINE_LEN - Len(tok))..MAX_LINE_LEN :
    p < MAX_LINE_LEN /\ MAX_LINE_LEN < p + Len(tok) /\ OccursAt(tok, p)

Newlines == {i \in 0..(Len(Bytes) - 1) : Bytes[i + 1] = NL}

\* "#!dgsh" is a prefix of the text right after the first newline of the file
MagicOnSecondLine ==
  /\ Newlines # {}
  /\ OccursAt(magic, Min(Newlines) + 1)

ElfL == IF Bytes[EI_CLASS + 1] = 2 THEN Elf64 ELSE Elf32

ValidIdent ==
  /\ InBuf(Bytes, 0, EI_CLASS + 1)
  /\ memcmp_eq(Bytes, 0, ELFMAG, Len(ELFMAG))
  /\ Bytes[EI_CLASS + 1] \in {1, 2}

HeaderIn == ValidIdent /\ InBuf(Bytes, 0, ElfL.ehsize)

ShOff == U(Bytes, ElfL.e_shoff, ElfL.wordsz)

ShNum == U(Bytes, ElfL.e_shnum, 2)

ShStrNdx == U(Bytes, ElfL.e_shstrndx, 2)

TableIn == ShOff + ShNum * ElfL.shentsize <= Len(Bytes)

SecNameOff(i) == U(Bytes, ShOff + i * ElfL.shentsize + ElfL.sh_name, 4)

SecOff(i) == U(Bytes, ShOff + i * ElfL.shentsize + ElfL.sh_offset, ElfL.wordsz)

SecSize(i) == U(Bytes, ShOff + i * ElfL.shentsize + ElfL.sh_size, ElfL.wordsz)

StrTabIn == SecOff(ShStrNdx) + SecSize(ShStrNdx) <= Len(Bytes)

\* section i's name, a NUL-terminated string of the string table, is s
NameIs(i, s) ==
  /\ SecNameOff(i) + Len(s) + 1 <= SecSize(ShStrNdx)
  /\ memcmp_eq(Bytes, SecOff(ShStrNdx) + SecNameOff(i), s, Len(s) + 1)

NameTerminated(i) ==
  \E e \in SecNameOff(i)..(SecSize(ShStrNdx) - 1) : Bytes[SecOff(ShStrNdx) + e + 1] = 0

NoteNameSz(i) == U(Bytes, SecOff(i), 4)

\* the bytes after section i's note header are the identifier and its NUL
NoteNameIsId(i) ==
  /\ InBuf(Bytes, SecOff(i) + ElfL.nhdr, Len(DGSH_NAME) + 1)
  /\ memcmp_eq(Bytes, SecOff(i) + ElfL.nhdr, DGSH_NAME, Len(DGSH_NAME) + 1)

(* A structurally consistent image: header, section header table, string   *)
(* table, every section's name and contents inside the buffer, and a       *)
(* ".note.ident" section holding the whole note record its header states.  *)
Consistent ==
  /\ HeaderIn
  /\ TableIn
  /\ ShStrNdx < ShNum
  /\ StrTabIn
  /\ \A i \in 0..(ShNum - 1) :
       /\ SecOff(i) + SecSize(i) <= Len(Bytes)
       /\ SecNameOff(i) < SecSize(ShStrNdx)
       /\ NameTerminated(i)
       /\ NameIs(i, NOTE_IDENT) =>
            /\ SecSize(i) >= ElfL.nhdr
            /\ SecSize(i) >= ElfL.nhdr + NoteNameSz(i)

\* the ".note.ident" sections whose note name is the identifier
IdentNotes == {i \in 0..(ShNum - 1) : NameIs(i, NOTE_IDENT) /\ NoteNameIsId(i)}

HasDgshNote ==
  \E i \in IdentNotes : NoteNameSz(i) = Len(DGSH_NAME) + 1

\* one of the inconsistencies of an image whose header is inside the buffer
Inconsistent ==
  /\ HeaderIn
  /\ \/ ~(ShStrNdx < ShNum)
     \/ ~TableIn
     \/ ~StrTabIn

\* the file could not be opened, is empty, or could not be mapped
IoFailure ==
  \/ ~file.exists
  \/ Len(Bytes) = 0
  \/ data = "MAP_FAILED"

----------------------------------------------------------------------------
(* The properties.                                                         *)

\* C1: every byte read by is_dgsh_program and its helpers on a mapped file
\* is at an index in [0, length): no read is outside the buffer.
C1_ReadsInsideBuffer == data = "mapped" => ~oob

\* C2: when the file cannot be opened, is empty or cannot be mapped, the
\* call yields an outcome distinct from the results false (0) and true (1),
\* and the file is dispatched neither to the script nor to the ELF path.
C2_IoErrorDistinct ==
  IoFailure => /\ mode = "none"
               /\ pc # "fault"
               /\ pc = "done" => ret \notin {0, 1}

\* C3: on a structurally consistent ELF image the call returns true if and
\* only if a section named exactly ".note.ident" has at its content offset
\* a note whose name size is the length of "DSpinellis/dgsh" with its
\* terminator and whose name bytes are that identifier with its terminator.
C3_NoteIffTrue ==
  (ElfDone /\ Consistent) => (ret = 1 <=> HasDgshNote)

\* a 64-bit consistent image with the note was walked and found compatible
C3_Witness ==
  ElfDone /\ Consistent /\ ElfL = Elf64 /\ HasDgshNote /\ ret = 1

\* C4: a script with a token entirely inside the first min(length, 1024)
\* bytes and before the first newline is found compatible, also when the
\* token's last byte is the last byte of the window or of the file.
C4_TokenOnFirstLineFound ==
  (ScriptDone /\ TokenOnFirstLine) => ret = 1

\* C5: a script is found compatible whenever the bytes right after the
\* first newline of the file begin with "#!dgsh" (6 bytes or more remain).
C5_MagicOnSecondLineFound ==
  (ScriptDone /\ MagicOnSecondLine) => ret = 1

\* C6 as stated: "#!/bin/sh\necho dgsh-wrap\n" is classified as compatible.
C6_WrapOnSecondLineTrue ==
  (ScriptDone /\ Bytes = SCRIPT_WRAP_LINE2) => ret = 1

\* C6 as amended: "#!/bin/sh\necho dgsh-wrap\n", whose token is on the
\* second line, is classified as not compatible: the call returns false.
C6_WrapOnSecondLineFalse ==
  (ScriptDone /\ Bytes = SCRIPT_WRAP_LINE2) => ret = 0

\* the scenario's script was scanned and the call returned false
C6_Witness ==
  ScriptDone /\ Bytes = SCRIPT_WRAP_LINE2 /\ ret = 0

\* C7 as stated: the accepted note name size is 17: on a consistent image
\* the call returns true exactly when a ".note.ident" note named
\* "DSpinellis/dgsh" states the name size 17.
C7_NameSize17 ==
  (ElfDone /\ Consistent) => (ret = 1 <=> \E i \in IdentNotes : NoteNameSz(i) = 17)

\* C7 as amended: the accepted note name size is 16, the 15 characters of
\* the identifier and its terminator: on a consistent image the call
\* returns true exactly when a ".note.ident" note named "DSpinellis/dgsh"
\* states the name size 16.
C7_NameSize16 ==
  (ElfDone /\ Consistent) => (ret = 1 <=> \E i \in IdentNotes : NoteNameSz(i) = 16)

\* a consistent image whose identifier note states the size 17 was rejected
C7_Witness ==
  /\ ElfDone
  /\ Consistent
  /\ \E i \in IdentNotes : NoteNameSz(i) = 17
  /\ ret = 0

\* C8: on an image with valid magic and class whose string table index is
\* not below the section count, or whose section header table or string
\* table lies outside the buffer, the walk returns false: it neither
\* returns true nor faults.
C8_InconsistentIsFalse ==
  (pc \in {"done", "fault"} /\ data = "mapped" /\ mode = "elf" /\ Inconsistent)
    => (pc = "done" /\ ret = 0)

\* C9: a script is found compatible only if a token lies on its first line
\* inside the first min(length, 1024) bytes or "#!dgsh" follows the first
\* newline; a token only after the first newline, only at or beyond byte
\* 1024, or straddling byte 1024, does not make the result true.
C9_TrueOnlyByTheFourChecks ==
  ScriptDone => (ret = 1 => (TokenOnFirstLine \/ MagicOnSecondLine))

\* a script whose only token straddles byte 1024 was scanned and rejected
C9_Witness ==
  ScriptDone /\ TokenStraddles /\ ~TokenOnFirstLine /\ ret = 0

\* C10: every path out of the call, the mapping-failure path included, is
\* a return, and when the call has returned it holds no descriptor and no
\* mapping: each mapping it established was unmapped exactly once, and
\* munmap was never called on a mapping that was not established.
C10_ResourcesReleased ==
  /\ data = "MAP_FAILED" => pc # "fault"
  /\ pc = "done" => /\ fd # "open"
                    /\ unmaps = maps
                    /\ ~badUnmap

====
